---------------------------- MODULE Spec2Model ----------------------------
(***************************************************************************)
(* TxSetFrame (src/herder/TxSetFrame.cpp): the transaction set a node      *)
(* proposes for the next ledger.  The state is the frame's fields          *)
(* (mTransactions, mHash, mHashIsValid, mPreviousLedgerHash), a reference  *)
(* a caller may still hold from the mutable previousLedgerHash() accessor, *)
(* the application the frame is checked against, and the record of the     *)
(* last call (its arguments' snapshot, return value and out-parameters).   *)
(*                                                                         *)
(* A transaction is a record: id is the identity of the shared pointer,    *)
(* hash its full hash (one per envelope), src/seq/fee the envelope's       *)
(* source account, sequence number and fee, ratio what getFeeRatio         *)
(* answers, wl what isWhitelisted answers, check how the transaction's own *)
(* checkValid answers.                                                     *)
(***************************************************************************)
EXTENDS Integers, Sequences, FiniteSets, TLC

VARIABLES mTransactions, mHashIsValid, mHash, mPreviousLedgerHash,
          heldRef, app, sortTies, call

vars == <<mTransactions, mHashIsValid, mHash, mPreviousLedgerHash,
          heldRef, app, sortTies, call>>

(***************************************************************************)
(* Bounds of the model.                                                    *)
(***************************************************************************)
\* width of a Hash in bits (32 bytes in the program)
HashBits == 4
\* width of size_t in bits (64 in the program); sizes stay far below 2^SizeBits
SizeBits == 16
\* sequence numbers an account uses in the apply-order specification
ApplyMaxSeq == 5
\* largest ledger maxTxSetSize
MaxSetSize == 2
\* largest account balance
MaxBalance == 3

AccountIDs == {1, 2}
\* the null shared_ptr<AccountID>: no whitelist holder
NoAccount == 0
FeeRatios == {0, 1, 2}
HashSpace == 2 ^ HashBits
SizeMod == 2 ^ SizeBits

(***************************************************************************)
(* Helpers on sequences.                                                   *)
(***************************************************************************)
Range(s) == {s[i] : i \in 1..Len(s)}

Reverse(s) == [i \in 1..Len(s) |-> s[Len(s) + 1 - i]]

Concat(ss) ==
    LET f[i \in 0..Len(ss)] == IF i = 0 THEN << >> ELSE f[i - 1] \o ss[i]
    IN  f[Len(ss)]

\* x put into the sorted vector s behind every element it is not less than
Insert(s, x, less) ==
    LET k == Cardinality({i \in 1..Len(s) : ~less[x, s[i]]})
    IN  SubSeq(s, 1, k) \o <<x>> \o SubSeq(s, k + 1, Len(s))

InsertionSort(s, less) ==
    LET f[i \in 0..Len(s)] ==
            IF i = 0 THEN << >> ELSE Insert(f[i - 1], s[i], less)
    IN  f[Len(s)]

\* std::sort: the result is ordered by the comparator less (a function of two
\* elements of s); the order of elements
\* the comparator holds equivalent is unspecified.  A build either keeps
\* their input order or reverses it (sortTies), the same way in every call.
StdSort(s, less) ==
    IF sortTies = "keep" THEN InsertionSort(s, less)
    ELSE InsertionSort(Reverse(s), less)

\* unsigned size_t subtraction and addition
SizeSub(a, b) == (a - b + SizeMod) % SizeMod
SizeAdd(a, b) == (a + b) % SizeMod

(***************************************************************************)
(* Hashes.                                                                 *)
(***************************************************************************)
RECURSIVE XorBits(_, _, _)
XorBits(a, b, n) ==
    IF n = 0 THEN 0
    ELSE (((a % 2) + (b % 2)) % 2) + (2 * XorBits(a \div 2, b \div 2, n - 1))

lessThanXored(l, r, x) == XorBits(l, x, HashBits) < XorBits(r, x, HashBits)

\* SHA256 over the bytes added: an ideal hash, one digest per input.  The
\* digest is kept as its input; HashValue is the digest read as a Hash.
SHA256(bytes) == [sha |-> bytes]

HashValue(h) ==
    LET b == h.sha
        f[i \in 0..Len(b)] ==
            IF i = 0 THEN Len(b) ELSE ((f[i - 1] * 5) + b[i] + 1) % HashSpace
    IN  f[Len(b)]

\* xdr_to_opaque(tx->getEnvelope()): one envelope per full hash
Envelope(tx) == tx.hash

ZeroHash == SHA256(<< >>)

(***************************************************************************)
(* Comparators.                                                            *)
(***************************************************************************)
HashTxSorter(tx1, tx2) == tx1.hash < tx2.hash

SeqSorter(tx1, tx2) == tx1.seq < tx2.seq

ApplyTxSorter(mSetHash, tx1, tx2) ==
    lessThanXored(tx1.hash, tx2.hash, HashValue(mSetHash))

\* SurgeSorter with the fee comparison turned round (fee1 < fee2)
SurgeSorter_LowFeeFirst(mAccountFeeMap, mWhitelisted, mWhitelistID, tx1, tx2) ==
    IF tx1.src = tx2.src THEN tx1.seq < tx2.seq
    ELSE IF mWhitelistID # NoAccount /\ tx1.src = mWhitelistID THEN TRUE
    ELSE IF mWhitelistID # NoAccount /\ tx2.src = mWhitelistID THEN FALSE
    ELSE IF mWhitelisted THEN tx1.src < tx2.src
    ELSE IF mAccountFeeMap[tx1.src] = mAccountFeeMap[tx2.src]
         THEN tx1.src < tx2.src
    ELSE mAccountFeeMap[tx1.src] < mAccountFeeMap[tx2.src]

\* mWhitelistID is the value the comparator reads through its reference member
SurgeSorter(mAccountFeeMap, mWhitelisted, mWhitelistID, tx1, tx2) ==
    IF tx1.src = tx2.src THEN tx1.seq < tx2.seq
    ELSE IF mWhitelistID # NoAccount /\ tx1.src = mWhitelistID THEN TRUE
    ELSE IF mWhitelistID # NoAccount /\ tx2.src = mWhitelistID THEN FALSE
    ELSE IF mWhitelisted THEN tx1.src < tx2.src
    ELSE IF mAccountFeeMap[tx1.src] = mAccountFeeMap[tx2.src]
         THEN tx1.src < tx2.src
    ELSE mAccountFeeMap[tx1.src] > mAccountFeeMap[tx2.src]

\* SurgeSorter binds its reference member mWhitelistID to the constructor's
\* by-value parameter, which is gone when the comparator runs: the read
\* yields the holder, or something that matches no account.
DanglingRead(whitelistID) == {whitelistID, NoAccount}

(***************************************************************************)
(* removeTx, sortForHash, getContentsHash.                                 *)
(***************************************************************************)
\* std::find + erase: the first occurrence goes, if there is one
removeTx(txs, tx) ==
    LET at == {i \in 1..Len(txs) : txs[i] = tx}
    IN  IF at = {} THEN txs
        ELSE LET k == CHOOSE i \in at : \A j \in at : i <= j
             IN  SubSeq(txs, 1, k - 1) \o SubSeq(txs, k + 1, Len(txs))

removeEach(txs, gone) ==
    LET f[i \in 0..Len(gone)] ==
            IF i = 0 THEN txs ELSE removeTx(f[i - 1], gone[i])
    IN  f[Len(gone)]

sortForHash(txs) ==
    StdSort(txs, [tx1 \in Range(txs), tx2 \in Range(txs) |->
                      HashTxSorter(tx1, tx2)])

ContentsDigest(prev, txs) ==
    SHA256(<<prev>> \o [n \in 1..Len(txs) |-> Envelope(txs[n])])

\* the frame after getContentsHash: [txs, hash, valid]; hash is the value returned
getContentsHash(txs, valid, hash, prev) ==
    IF ~valid
    THEN LET s == sortForHash(txs)
         IN  [txs |-> s, hash |-> ContentsDigest(prev, s), valid |-> TRUE]
    ELSE [txs |-> txs, hash |-> hash, valid |-> valid]

(***************************************************************************)
(* sortForApply.                                                           *)
(***************************************************************************)
\* BuildBatches without the v++: every transaction lands in batch 0
BuildBatches_CountNotAdvanced(retList) ==
    << retList, << >>, << >>, << >> >>

\* the batches built from the list sorted by seqNum: batch[i] holds the i-th
\* transaction of every account (txBatches starts with 4 empty batches)
BuildBatches(retList) ==
    LET f[i \in 0..Len(retList)] ==
            IF i = 0
            THEN [txBatches |-> << << >>, << >>, << >>, << >> >>,
                  accountTxCountMap |-> [a \in AccountIDs |-> 0]]
            ELSE LET tx == retList[i]
                     p == f[i - 1]
                     v == p.accountTxCountMap[tx.src]
                     grown == IF v >= Len(p.txBatches)
                              THEN [k \in 1..(v + 4) |->
                                      IF k <= Len(p.txBatches)
                                      THEN p.txBatches[k] ELSE << >>]
                              ELSE p.txBatches
                 IN  [txBatches |->
                          [grown EXCEPT ![v + 1] = Append(grown[v + 1], tx)],
                      accountTxCountMap |->
                          [p.accountTxCountMap EXCEPT ![tx.src] = v + 1]]
    IN  f[Len(retList)].txBatches

\* sortForApply with retList a reference to mTransactions instead of a copy:
\* the seqNum sort reorders the set itself
sortForApply_InPlace(txs, valid, hash, prev) ==
    LET retList == StdSort(txs, [tx1 \in Range(txs), tx2 \in Range(txs) |->
                                     SeqSorter(tx1, tx2)])
        txBatches == BuildBatches(retList)
        g == getContentsHash(retList, valid, hash, prev)
        sorted == [k \in 1..Len(txBatches) |->
                     StdSort(txBatches[k],
                             [tx1 \in Range(txBatches[k]),
                              tx2 \in Range(txBatches[k]) |->
                                  ApplyTxSorter(g.hash, tx1, tx2)])]
    IN  [ret |-> Concat(sorted), txs |-> g.txs, hash |-> g.hash,
         valid |-> g.valid]

\* the frame after sortForApply and the list it returns: [ret, txs, hash, valid]
sortForApply(txs, valid, hash, prev) ==
    LET retList == StdSort(txs, [tx1 \in Range(txs), tx2 \in Range(txs) |->
                                     SeqSorter(tx1, tx2)])
        txBatches == BuildBatches(retList)
        \* the loop runs at least 4 times: getContentsHash is always called
        g == getContentsHash(txs, valid, hash, prev)
        sorted == [k \in 1..Len(txBatches) |->
                     StdSort(txBatches[k],
                             [tx1 \in Range(txBatches[k]),
                              tx2 \in Range(txBatches[k]) |->
                                  ApplyTxSorter(g.hash, tx1, tx2)])]
    IN  [ret |-> Concat(sorted), txs |-> g.txs, hash |-> g.hash,
         valid |-> g.valid]

(***************************************************************************)
(* surgePricingFilter.                                                     *)
(***************************************************************************)
\* accountFeeMap: operator[] on the map yields 0.0 for an account not seen yet
AccountFeeMap(txs) ==
    LET f[i \in 0..Len(txs)] ==
            IF i = 0 THEN [a \in AccountIDs |-> 0]
            ELSE LET r == txs[i].ratio
                     now == f[i - 1][txs[i].src]
                 IN  IF now = 0 THEN [f[i - 1] EXCEPT ![txs[i].src] = r]
                     ELSE IF r < now THEN [f[i - 1] EXCEPT ![txs[i].src] = r]
                     ELSE f[i - 1]
    IN  f[Len(txs)]

\* [txs, removed, feeMap, inEffect]: the set after the filter, the arguments of
\* its removeTx calls in order, and the fee map it sorted by.  seenW and seenU
\* are what the two comparators read as the whitelist holder.
surgePricingFilter(txs, max, reserve, whitelistID, seenW, seenU) ==
    IF ~(Len(txs) > max)
    THEN [txs |-> txs, removed |-> << >>,
          feeMap |-> [a \in AccountIDs |-> 0], inEffect |-> FALSE]
    ELSE
    LET whitelisted == SelectSeq(txs, LAMBDA tx : tx.wl)
        unwhitelisted == SelectSeq(txs, LAMBDA tx : ~tx.wl)
        reserveCapacity == IF Len(unwhitelisted) < reserve
                           THEN Len(unwhitelisted) ELSE reserve
        accountFeeMap == AccountFeeMap(txs)
        sortedW == StdSort(whitelisted,
                      [tx1 \in Range(txs), tx2 \in Range(txs) |->
                          SurgeSorter(accountFeeMap, TRUE, seenW, tx1, tx2)])
        room == SizeSub(max, reserveCapacity)
        removedW == IF Len(sortedW) > room
                    THEN SubSeq(sortedW, room + 1, Len(sortedW)) ELSE << >>
        extraWhitelistCapacity == IF Len(sortedW) > room THEN 0
                                  ELSE SizeSub(room, Len(sortedW))
        totalCapacity == SizeAdd(reserveCapacity, extraWhitelistCapacity)
        tempList == StdSort(unwhitelisted,
                      [tx1 \in Range(txs), tx2 \in Range(txs) |->
                          SurgeSorter(accountFeeMap, FALSE, seenU, tx1, tx2)])
        removedU == IF Len(unwhitelisted) <= totalCapacity THEN << >>
                    ELSE SubSeq(tempList, totalCapacity + 1, Len(tempList))
        removed == removedW \o removedU
    IN  [txs |-> removeEach(txs, removed), removed |-> removed,
         feeMap |-> accountFeeMap, inEffect |-> TRUE]

(***************************************************************************)
(* checkOrTrim, trimInvalid, checkValid.                                   *)
(***************************************************************************)
\* TransactionFrame::checkValid(app, lastSeq): the answer is a fixed function
\* of the transaction and lastSeq.  "seq" is the sequence rule (the account's
\* stored sequence number is read when lastSeq is 0), "never" a transaction
\* that fails for another reason, "always" one that passes whatever lastSeq.
TxCheckValid(tx, lastSeq) ==
    CASE tx.check = "never" -> FALSE
      [] tx.check = "always" -> TRUE
      [] OTHER -> IF lastSeq = 0 THEN tx.seq = app.seqNum[tx.src] + 1
                  ELSE tx.seq = lastSeq + 1

\* the first loop of checkOrTrim: no transaction's full hash is below the
\* one before it (lastHash starts as the zero hash)
SortedCorrectly(txs) ==
    \A i \in 2..Len(txs) : ~(txs[i].hash < txs[i - 1].hash)

\* AccountScan with lastSeq advanced before the validity check's verdict is
\* acted on: an invalid transaction moves lastSeq too
AccountScan_SeqAdvancesOnInvalid(item) ==
    LET f[i \in 0..Len(item)] ==
            IF i = 0
            THEN [lastSeq |-> 0, totFee |-> 0, any |-> FALSE, invalid |-> << >>]
            ELSE LET tx == item[i]
                     p == f[i - 1]
                 IN  IF ~TxCheckValid(tx, p.lastSeq)
                     THEN [p EXCEPT !.invalid = Append(@, tx),
                                    !.lastSeq = tx.seq]
                     ELSE [lastSeq |-> tx.seq,
                           totFee |-> p.totFee + (IF tx.wl THEN 0 ELSE tx.fee),
                           any |-> TRUE, invalid |-> p.invalid]
    IN  f[Len(item)]

\* the scan of one account's transactions, sorted by seqNum:
\* [lastSeq, totFee, any, invalid]; any is "lastTx is set"
AccountScan(item) ==
    LET f[i \in 0..Len(item)] ==
            IF i = 0
            THEN [lastSeq |-> 0, totFee |-> 0, any |-> FALSE, invalid |-> << >>]
            ELSE LET tx == item[i]
                     p == f[i - 1]
                 IN  IF ~TxCheckValid(tx, p.lastSeq)
                     THEN [p EXCEPT !.invalid = Append(@, tx)]
                     ELSE [lastSeq |-> tx.seq,
                           totFee |-> p.totFee + (IF tx.wl THEN 0 ELSE tx.fee),
                           any |-> TRUE, invalid |-> p.invalid]
    IN  f[Len(item)]

\* lines 319-325: the account cannot pay the fees of its valid transactions
InsufficientBalance(scan, account) ==
    /\ scan.any
    /\ app.balance[account] - scan.totFee < app.minBalance[account]

\* accountTxMap[account], sorted by sequence number
AccountItem(txs, account) ==
    StdSort(SelectSeq(txs, LAMBDA tx : tx.src = account),
            [tx1 \in Range(txs), tx2 \in Range(txs) |-> SeqSorter(tx1, tx2)])

\* TrimmedOfAccount with an account that cannot pay losing only its last
\* transaction (item.back())
TrimmedOfAccount_TailOnly(txs, account) ==
    LET item == AccountItem(txs, account)
        scan == AccountScan(item)
    IN  scan.invalid \o
        (IF InsufficientBalance(scan, account)
         THEN <<item[Len(item)]>> ELSE << >>)

\* what trimInvalid's callbacks push to trimmed (and remove) for one account
TrimmedOfAccount(txs, account) ==
    LET item == AccountItem(txs, account)
        scan == AccountScan(item)
    IN  scan.invalid \o
        (IF InsufficientBalance(scan, account) THEN item ELSE << >>)

\* std::map iterates the accounts in ascending order
AccountOrder ==
    LET f[n \in 0..Cardinality(AccountIDs)] ==
            IF n = 0 THEN << >>
            ELSE LET left == AccountIDs \ Range(f[n - 1])
                 IN  Append(f[n - 1],
                            CHOOSE a \in left : \A b \in left : a <= b)
    IN  f[Cardinality(AccountIDs)]

\* checkOrTrim: [verdict, txs, trimmed].  trim says which pair of callbacks is
\* passed: trimInvalid's (push to trimmed, removeTx, go on) or checkValid's
\* (give up).
checkOrTrim(txs, trim) ==
    IF ~SortedCorrectly(txs)
    THEN [verdict |-> FALSE, txs |-> txs, trimmed |-> << >>]
    ELSE IF trim
    THEN LET trimmed == Concat([k \in 1..Len(AccountOrder) |->
                                   TrimmedOfAccount(txs, AccountOrder[k])])
         IN  [verdict |-> TRUE, txs |-> removeEach(txs, trimmed),
              trimmed |-> trimmed]
    ELSE [verdict |->
              \A a \in AccountIDs :
                  LET scan == AccountScan(AccountItem(txs, a))
                  IN  scan.invalid = << >> /\ ~InsufficientBalance(scan, a),
          txs |-> txs, trimmed |-> << >>]

\* trimInvalid: [txs, trimmed]
trimInvalid(txs) ==
    LET r == checkOrTrim(sortForHash(txs), TRUE)
    IN  [txs |-> r.txs, trimmed |-> r.trimmed]

\* checkValid without the first loop's verdict: the order is not looked at
checkValid_OrderIgnored(txs, prev) ==
    IF app.lclHash # prev THEN FALSE
    ELSE IF Len(txs) > app.maxTxSetSize THEN FALSE
    ELSE checkOrTrim(sortForHash(txs), FALSE).verdict

\* checkValid: the verdict
checkValid(txs, prev) ==
    IF app.lclHash # prev THEN FALSE
    ELSE IF Len(txs) > app.maxTxSetSize THEN FALSE
    ELSE checkOrTrim(txs, FALSE).verdict

(***************************************************************************)
(* The calls.                                                              *)
(***************************************************************************)
NoFeeMap == [a \in AccountIDs |-> 0]

\* the record of a call: pre and preValid are mTransactions and mHashIsValid
\* at entry; ret the list sortForApply returns; removed the arguments of the
\* removeTx calls surgePricingFilter made and feeMap its accountFeeMap;
\* trimmed what trimInvalid appended to its out-parameter; verdict what
\* checkValid returned; runs the trimInvalid calls made in a row and orig the
\* set before the first of them
Call(op) ==
    [op |-> op, pre |-> mTransactions, preValid |-> mHashIsValid,
     ret |-> << >>, removed |-> << >>, trimmed |-> << >>, verdict |-> TRUE,
     feeMap |-> NoFeeMap, inEffect |-> FALSE, runs |-> 0, orig |-> << >>]

Tx(id, src, seq, hash, ratio, fee, wl, check) ==
    [id |-> id, src |-> src, seq |-> seq, hash |-> hash, ratio |-> ratio,
     fee |-> fee, wl |-> wl, check |-> check]

\* a transaction that is in no set
Stranger == Tx(0, 1, 1, 0, 1, 1, FALSE, "seq")

LedgerHashes == {0, 1}

RemoveTx ==
    \E tx \in Range(mTransactions) \cup {Stranger} :
        /\ mTransactions' = removeTx(mTransactions, tx)
        /\ mHashIsValid' = FALSE
        /\ call' = Call("removeTx")
        /\ UNCHANGED <<mHash, mPreviousLedgerHash, heldRef, app, sortTies>>

SortForHash ==
    /\ mTransactions' = sortForHash(mTransactions)
    /\ mHashIsValid' = FALSE
    /\ call' = Call("sortForHash")
    /\ UNCHANGED <<mHash, mPreviousLedgerHash, heldRef, app, sortTies>>

GetContentsHash ==
    LET g == getContentsHash(mTransactions, mHashIsValid, mHash,
                             mPreviousLedgerHash)
    IN  /\ mTransactions' = g.txs
        /\ mHash' = g.hash
        /\ mHashIsValid' = g.valid
        /\ call' = Call("getContentsHash")
        /\ UNCHANGED <<mPreviousLedgerHash, heldRef, app, sortTies>>

\* Hash& previousLedgerHash(): the flag is cleared and the caller gets a
\* reference to the field
PreviousLedgerHash ==
    /\ mHashIsValid' = FALSE
    /\ heldRef' = TRUE
    /\ call' = Call("previousLedgerHash")
    /\ UNCHANGED <<mTransactions, mHash, mPreviousLedgerHash, app, sortTies>>

\* the caller assigns through the reference it got; no member function runs
AssignThroughRef ==
    /\ heldRef
    /\ \E h \in LedgerHashes \ {mPreviousLedgerHash} :
           mPreviousLedgerHash' = h
    /\ call' = Call("assignThroughRef")
    /\ UNCHANGED <<mTransactions, mHash, mHashIsValid, heldRef, app, sortTies>>

SortForApply ==
    LET r == sortForApply(mTransactions, mHashIsValid, mHash,
                          mPreviousLedgerHash)
    IN  /\ mTransactions' = r.txs
        /\ mHash' = r.hash
        /\ mHashIsValid' = r.valid
        /\ call' = [Call("sortForApply") EXCEPT !.ret = r.ret]
        /\ UNCHANGED <<mPreviousLedgerHash, heldRef, app, sortTies>>

SurgePricingFilter ==
    \E seenW \in DanglingRead(app.whitelistID),
       seenU \in DanglingRead(app.whitelistID) :
        LET r == surgePricingFilter(mTransactions, app.maxTxSetSize,
                                    app.reserve, app.whitelistID, seenW, seenU)
        IN  /\ mTransactions' = r.txs
            /\ mHashIsValid' = IF r.removed # << >> THEN FALSE ELSE mHashIsValid
            /\ call' = [Call("surgePricingFilter") EXCEPT
                            !.removed = r.removed, !.feeMap = r.feeMap,
                            !.inEffect = r.inEffect]
            /\ UNCHANGED <<mHash, mPreviousLedgerHash, heldRef, app, sortTies>>

\* trimInvalid calls made in a row that the model tells apart
MaxRuns == 2

TrimInvalid ==
    LET r == trimInvalid(mTransactions)
        again == call.op = "trimInvalid"
    IN  /\ mTransactions' = r.txs
        /\ mHashIsValid' = FALSE
        /\ call' = [Call("trimInvalid") EXCEPT
                        !.trimmed = r.trimmed,
                        !.runs = IF ~again THEN 1
                                 ELSE IF call.runs < MaxRuns
                                 THEN call.runs + 1 ELSE MaxRuns,
                        !.orig = IF again THEN call.orig ELSE mTransactions]
        /\ UNCHANGED <<mHash, mPreviousLedgerHash, heldRef, app, sortTies>>

CheckValid ==
    /\ call' = [Call("checkValid") EXCEPT
                    !.verdict = checkValid(mTransactions, mPreviousLedgerHash)]
    /\ UNCHANGED <<mTransactions, mHash, mHashIsValid, mPreviousLedgerHash,
                   heldRef, app, sortTies>>

(***************************************************************************)
(* The sets a frame is constructed from, and the applications.             *)
(***************************************************************************)
\* the transactions of S as a vector, by ascending id
ById(S) ==
    LET f[n \in 0..Cardinality(S)] ==
            IF n = 0 THEN << >>
            ELSE LET left == S \ Range(f[n - 1])
                 IN  Append(f[n - 1],
                            CHOOSE t \in left : \A u \in left : t.id <= u.id)
    IN  f[Cardinality(S)]

\* the wire orders the model constructs a frame from
WireOrders(S) == {ById(S), Reverse(ById(S))}

App(max, reserve, whitelistID, lclHash, balance, seqNum) ==
    [maxTxSetSize |-> max, reserve |-> reserve, whitelistID |-> whitelistID,
     lclHash |-> lclHash, balance |-> balance, seqNum |-> seqNum,
     minBalance |-> [a \in AccountIDs |-> 1]]

\* the frame right after either constructor
Constructed(txs, prev) ==
    /\ mTransactions = txs
    /\ mHashIsValid = FALSE
    /\ mHash = ZeroHash
    /\ mPreviousLedgerHash = prev
    /\ heldRef = FALSE
    /\ call = [op |-> "none", pre |-> << >>, preValid |-> FALSE,
               ret |-> << >>, removed |-> << >>, trimmed |-> << >>,
               verdict |-> TRUE, feeMap |-> NoFeeMap, inEffect |-> FALSE,
               runs |-> 0, orig |-> << >>]

(***************************************************************************)
(* SpecApply: sortForApply and getContentsHash on sets in which account 1  *)
(* has up to ApplyMaxSeq + 1 transactions (two of them with seqNum 1) and  *)
(* account 2 up to two.                                                    *)
(***************************************************************************)
ApplyHash(id) == (id * 3) % HashSpace

ApplyPool ==
    {Tx(s, 1, s, ApplyHash(s), 1, 1, FALSE, "seq") : s \in 1..ApplyMaxSeq}
    \cup {Tx(ApplyMaxSeq + 1, 1, 1, ApplyHash(ApplyMaxSeq + 1), 1, 1, FALSE, "seq")}
    \cup {Tx(ApplyMaxSeq + 1 + s, 2, s, ApplyHash(ApplyMaxSeq + 1 + s), 1, 1,
             FALSE, "seq") : s \in 1..2}

QuietApp == App(0, 0, NoAccount, 0, [a \in AccountIDs |-> 1],
                [a \in AccountIDs |-> 0])

InitApply ==
    /\ sortTies \in {"keep", "flip"}
    /\ app = QuietApp
    /\ \E S \in SUBSET ApplyPool, prev \in LedgerHashes :
           \E txs \in WireOrders(S) : Constructed(txs, prev)

NextApply == GetContentsHash \/ SortForApply

SpecApply == InitApply /\ [][NextApply]_vars

(***************************************************************************)
(* Claims on sortForApply (SpecApply).                                     *)
(***************************************************************************)
TxsOf(txs, account) == {i \in 1..Len(txs) : txs[i].src = account}

DistinctSeqNums(txs, account) ==
    \A i, j \in TxsOf(txs, account) : i # j => txs[i].seq # txs[j].seq

\* C2 as stated: in the list sortForApply returns, the transactions of every
\* account are in strictly ascending seqNum order, for any set.
C2_StrictlyAscending ==
    call.op = "sortForApply" =>
        \A i, j \in 1..Len(call.ret) :
            (i < j /\ call.ret[i].src = call.ret[j].src)
                => call.ret[i].seq < call.ret[j].seq

\* C2 amended: in the list sortForApply returns, no transaction of an account
\* comes before one of the same account with a smaller seqNum; the order is
\* strictly ascending for every account whose seqNums in the set are distinct.
C2_AscendingPerAccount ==
    call.op = "sortForApply" =>
        \A i, j \in 1..Len(call.ret) :
            (i < j /\ call.ret[i].src = call.ret[j].src)
                => /\ call.ret[i].seq <= call.ret[j].seq
                   /\ DistinctSeqNums(call.pre, call.ret[i].src)
                          => call.ret[i].seq < call.ret[j].seq

\* an account with more than 4 transactions, all seqNums distinct (the batch
\* vector was grown), beside transactions of another account
C2_Witness ==
    /\ call.op = "sortForApply"
    /\ Cardinality(TxsOf(call.ret, 1)) > 4
    /\ DistinctSeqNums(call.pre, 1)
    /\ Cardinality(TxsOf(call.ret, 2)) = 2
    /\ call.ret[1].src = 2

\* C5 as stated: sortForApply leaves mTransactions as it was, the same
\* transactions in the same order.
C5_NotMutated ==
    call.op = "sortForApply" => mTransactions = call.pre

\* C5 amended: sortForApply neither adds nor removes a transaction; the order
\* of mTransactions is unchanged when the hash cache was valid at the call, and
\* is the order by full hash when it was not.
C5_SameTxsCanonicalOrder ==
    call.op = "sortForApply" =>
        /\ Len(mTransactions) = Len(call.pre)
        /\ Range(mTransactions) = Range(call.pre)
        /\ call.preValid => mTransactions = call.pre
        /\ ~call.preValid =>
               \A i, j \in 1..Len(mTransactions) :
                   i < j => ~(mTransactions[j].hash < mTransactions[i].hash)

\* a call with the cache invalid that reordered the set
C5_Witness ==
    /\ call.op = "sortForApply"
    /\ ~call.preValid
    /\ Len(call.pre) > 2
    /\ mTransactions # call.pre

(***************************************************************************)
(* SpecSurge: surgePricingFilter on every set of up to SurgeMaxTx          *)
(* transactions of two accounts, any fee ratio and whitelist membership    *)
(* per transaction, under every ledger limit, reserve and whitelist holder.*)
(***************************************************************************)
\* largest set given to surgePricingFilter
SurgeMaxTx == 3

SurgeSeqNums == {1, 2}

\* a whitelisted transaction pays no fee (ratio 0); the others pay any ratio
SurgePool ==
    {LET id == 1 + (src - 1) + (2 * (seq - 1)) + (4 * ratio)
     IN  Tx(id, src, seq, id, ratio, ratio, FALSE, "seq") :
        src \in AccountIDs, seq \in SurgeSeqNums, ratio \in FeeRatios}
    \cup {LET id == 20 + (src - 1) + (2 * (seq - 1))
          IN  Tx(id, src, seq, id, 0, 0, TRUE, "seq") :
              src \in AccountIDs, seq \in SurgeSeqNums}

RECURSIVE SetsUpTo(_, _)
SetsUpTo(pool, n) ==
    IF n = 0 THEN {{}}
    ELSE LET smaller == SetsUpTo(pool, n - 1)
         IN  smaller \cup {s \cup {t} : s \in smaller, t \in pool}

InitSurge ==
    /\ sortTies \in {"keep", "flip"}
    /\ \E max \in 0..MaxSetSize, whitelistID \in {NoAccount} \cup AccountIDs :
         \E reserve \in 0..(max + 1) :
           app = App(max, reserve, whitelistID, 0, [a \in AccountIDs |-> 1],
                     [a \in AccountIDs |-> 0])
    /\ \E S \in SetsUpTo(SurgePool, SurgeMaxTx) :
           \E txs \in WireOrders(S) : Constructed(txs, 0)

NextSurge == SurgePricingFilter

SpecSurge == InitSurge /\ [][NextSurge]_vars

(***************************************************************************)
(* Claims on surgePricingFilter (SpecSurge).                               *)
(***************************************************************************)
\* the minimum feeRatio over the account's transactions in txs
MinFeeRatio(txs, account) ==
    CHOOSE r \in {txs[i].ratio : i \in TxsOf(txs, account)} :
        \A i \in TxsOf(txs, account) : r <= txs[i].ratio

\* the transactions the filter dropped
Dropped == Range(call.pre) \ Range(mTransactions)

\* C1: after surgePricingFilter the set holds at most getMaxTxSetSize()
\* transactions, whatever unwhitelistedReserve returns.
C1_AtMostMax ==
    call.op = "surgePricingFilter" => Len(mTransactions) <= app.maxTxSetSize

\* C9: the per-account fee ratio the filter sorts by is the minimum feeRatio
\* over the account's transactions in the set.
C9_FeeMapIsMinimum ==
    (call.op = "surgePricingFilter" /\ call.inEffect) =>
        \A a \in AccountIDs :
            TxsOf(call.pre, a) # {} => call.feeMap[a] = MinFeeRatio(call.pre, a)

\* C10: after the filter, no transaction of an account is still in the set
\* while one of the same account with a smaller seqNum was removed.
C10_KeepsSeqPrefix ==
    call.op = "surgePricingFilter" =>
        \A kept \in Range(mTransactions), gone \in Dropped :
            kept.src = gone.src => ~(gone.seq < kept.seq)

TrimMaxTx == 3

TrimSeqNums == {1, 2}

TrimPool ==
    {LET id == 1 + (src - 1) + (2 * (seq - 1)) + (4 * pay)
                 + (IF check = "seq" THEN 0 ELSE 12)
     IN  Tx(id, src, seq, id, 1, IF pay = 2 THEN 2 ELSE 1, pay = 0, check) :
        src \in AccountIDs, seq \in TrimSeqNums, pay \in {0, 1, 2},
        check \in {"seq", "never"}}

InitTrim ==
    /\ sortTies \in {"keep", "flip"}
    /\ \E b \in 0..MaxBalance :
           app = App(0, 0, NoAccount, 0,
                     [a \in AccountIDs |-> IF a = 1 THEN b ELSE MaxBalance],
                     [a \in AccountIDs |-> 0])
    /\ \E S \in SetsUpTo(TrimPool, TrimMaxTx) :
           \E txs \in WireOrders(S) : Constructed(txs, 0)

NextTrim == TrimInvalid

SpecTrim == InitTrim /\ [][NextTrim]_vars

(***************************************************************************)
(* SpecCheck: checkValid on every set of up to CheckMaxTx transactions, in *)
(* ascending or descending order of full hash.  A wire set may carry an    *)
(* envelope twice: copy 2 of a transaction is another pointer to the same  *)
(* envelope, with the same full hash.                                      *)
(***************************************************************************)
\* largest set given to checkValid
CheckMaxTx == 3

CheckPool ==
    {LET h == 1 + (src - 1) + (2 * (seq - 1))
                + (IF check = "seq" THEN 0 ELSE IF check = "never" THEN 4 ELSE 8)
     IN  Tx((2 * h) + copy, src, seq, h, 1, 1, FALSE, check) :
        src \in AccountIDs, seq \in {1, 2}, check \in {"seq", "never", "always"},
        copy \in {0, 1}}

InitCheck ==
    /\ sortTies \in {"keep", "flip"}
    /\ \E max \in 1..(MaxSetSize + 1), b \in {1, MaxBalance} :
           app = App(max, 0, NoAccount, 0, [a \in AccountIDs |-> b],
                     [a \in AccountIDs |-> 0])
    /\ \E S \in SetsUpTo(CheckPool, CheckMaxTx), prev \in LedgerHashes :
           \E txs \in WireOrders(S) : Constructed(txs, prev)

NextCheck == CheckValid

SpecCheck == InitCheck /\ [][NextCheck]_vars

(***************************************************************************)
(* Spec: the frame's life.  Any call in any order on a set of up to three  *)
(* transactions, with the caller keeping the reference the mutable         *)
(* previousLedgerHash() accessor returned.                                 *)
(***************************************************************************)
LifePool ==
    {Tx(1, 1, 1, 5, 2, 1, FALSE, "seq"), Tx(2, 1, 2, 2, 1, 2, FALSE, "seq"),
     Tx(3, 2, 1, 9, 0, 1, TRUE, "seq")}

Init ==
    /\ sortTies \in {"keep", "flip"}
    /\ \E whitelistID \in {NoAccount, 2} :
           app = App(1, 1, whitelistID, 0, [a \in AccountIDs |-> 2],
                     [a \in AccountIDs |-> 0])
    /\ \E S \in SUBSET LifePool, prev \in LedgerHashes :
           \E txs \in WireOrders(S) : Constructed(txs, prev)

Next ==
    \/ RemoveTx
    \/ SortForHash
    \/ GetContentsHash
    \/ PreviousLedgerHash
    \/ AssignThroughRef
    \/ SortForApply
    \/ SurgePricingFilter
    \/ TrimInvalid
    \/ CheckValid

Spec == Init /\ [][Next]_vars

(***************************************************************************)
(* Claims on trimInvalid (SpecTrim).                                       *)
(***************************************************************************)
RECURSIVE SumFees(_)
SumFees(S) ==
    IF S = {} THEN 0
    ELSE LET tx == CHOOSE t \in S : TRUE
         IN  tx.fee + SumFees(S \ {tx})

\* the transactions of the account that pass their validity check when the
\* account's transactions of txs are scanned in seqNum order
PassingTxs(txs, account) ==
    LET item == AccountItem(sortForHash(txs), account)
    IN  Range(item) \ Range(AccountScan(item).invalid)

\* the account has a passing transaction, and its balance minus the fees of
\* its passing non-whitelisted transactions is below its minimum balance
CannotPay(txs, account) ==
    /\ PassingTxs(txs, account) # {}
    /\ app.balance[account]
           - SumFees({tx \in PassingTxs(txs, account) : ~tx.wl})
         < app.minBalance[account]

\* C7: trimInvalid removes every transaction of an account that cannot pay,
\* and reports each in trimmed; a transaction of an account that can pay is
\* removed only if it fails its own validity check.
C7_WholeAccountTrimmed ==
    call.op = "trimInvalid" =>
        \A tx \in Range(call.pre) :
            IF CannotPay(call.pre, tx.src)
            THEN tx \notin Range(mTransactions) /\ tx \in Range(call.trimmed)
            ELSE tx \in Range(mTransactions)
                     <=> tx \in PassingTxs(call.pre, tx.src)

\* account 1 cannot pay for its three transactions, one of which fails its
\* own check: all three are gone and reported, account 2 keeps its own
C7_Witness ==
    /\ call.op = "trimInvalid"
    /\ CannotPay(call.pre, 1)
    /\ Cardinality(TxsOf(call.pre, 1)) > 1
    /\ Cardinality(PassingTxs(call.pre, 1)) > 1
    /\ \A i \in TxsOf(call.pre, 1) : call.pre[i] \in Range(call.trimmed)
    /\ TxsOf(mTransactions, 1) = {}
    /\ TxsOf(mTransactions, 2) # {}

\* C8: a second trimInvalid on the result of a first removes nothing and
\* appends nothing to trimmed: the set is the set the first run left.
C8_TrimIdempotent ==
    (call.op = "trimInvalid" /\ call.runs > 1) =>
        /\ call.trimmed = << >>
        /\ mTransactions = call.pre

\* a second run on a set the first run took transactions from and left
\* two or more in
C8_Witness ==
    /\ call.op = "trimInvalid"
    /\ call.runs > 1
    /\ Len(call.pre) < Len(call.orig)
    /\ Len(call.pre) > 1

(***************************************************************************)
(* Claims on checkValid (SpecCheck).                                       *)
(***************************************************************************)
StrictlyAscendingByHash(txs) ==
    \A i \in 2..Len(txs) : txs[i - 1].hash < txs[i].hash

\* C6 as stated: checkValid returns false whenever previousLedgerHash is not
\* the last closed ledger's hash, the set is larger than maxTxSetSize, or the
\* transactions are not strictly ascending by full hash.
C6_StructuralErrorRejected ==
    (call.op = "checkValid"
        /\ (\/ app.lclHash # mPreviousLedgerHash
            \/ Len(call.pre) > app.maxTxSetSize
            \/ ~StrictlyAscendingByHash(call.pre)))
        => call.verdict = FALSE

\* C6 amended: checkValid returns false whenever previousLedgerHash is not the
\* last closed ledger's hash, the set is larger than maxTxSetSize, or some
\* transaction's full hash is below that of the one before it.
C6_DescentRejected ==
    (call.op = "checkValid"
        /\ (\/ app.lclHash # mPreviousLedgerHash
            \/ Len(call.pre) > app.maxTxSetSize
            \/ \E i \in 2..Len(call.pre) :
                   call.pre[i].hash < call.pre[i - 1].hash))
        => call.verdict = FALSE

\* a set on the right ledger and within the size limit, whose transactions
\* would all pass their own checks, rejected for its order alone
C6_Witness ==
    /\ call.op = "checkValid"
    /\ app.lclHash = mPreviousLedgerHash
    /\ Len(call.pre) <= app.maxTxSetSize
    /\ \A i \in 1..Len(call.pre) : call.pre[i].check = "always"
    /\ \E i \in 2..Len(call.pre) : call.pre[i].hash < call.pre[i - 1].hash
    /\ call.verdict = FALSE

(***************************************************************************)
(* Claim on the hash cache (Spec).                                         *)
(***************************************************************************)
\* C3: whenever mHashIsValid is set, mHash is the digest of the current
\* previousLedgerHash followed by the current transactions in canonical order.
C3_CacheNeverStale ==
    mHashIsValid =>
        mHash = ContentsDigest(mPreviousLedgerHash, sortForHash(mTransactions))

=============================================================================
